---- MODULE Spec2Model ----
(***************************************************************************)
(* Model of the automated refactoring tool: the syntax-tree nodes, the     *)
(* three pattern detectors (parser.py), the three transformation rules and *)
(* the RefactoringEngine wrappers (refactoring_engine.py), and the         *)
(* orchestrator and per-file pipeline of the command line (cli.py).        *)
(*                                                                         *)
(* Syntax trees are records with a "kind" field naming the ast class and   *)
(* the fields of that class.  Source positions (lineno, col_offset) are    *)
(* modelled by the path of a node from the module root.                    *)
(***************************************************************************)
EXTENDS Integers, Sequences, FiniteSets, TLC

VARIABLES
    node,              \* rule development: the node handed to a rule
    result,            \* rule development: what the rule call produced
    pc,                \* pipeline: position in main / process_file
    input_kind,        \* pipeline: what input_path is ("file", "dir", "invalid")
    use_ml_filter,     \* pipeline: the --use-ml-filter flag
    ML_AVAILABLE,      \* pipeline: whether refactoring_tool.ml_filter imported
    model_on_disk,     \* pipeline: whether models/model.pkl exists
    model_file,        \* pipeline: what models/model.pkl holds when it exists
    ml_filter,         \* pipeline: main's ml_filter ("None" or a filter record)
    nfiles,            \* pipeline: .py files found at input_path
    todo,              \* pipeline: files of the walk not yet processed
    source,            \* pipeline: content of the file being processed
    issues,            \* pipeline: the three issue lists of analyze_file
    refactored_code,   \* pipeline: result of apply_refactorings
    error_probability, \* pipeline: classifier output, in hundredths
    output,            \* pipeline: what was written for the current file
    written,           \* pipeline: number of files written to the output dir
    discarded,         \* pipeline: rewrites discarded by the risk gate
    log,               \* pipeline: warnings logged by main
    raised             \* pipeline: exception that reached the caller

vars == <<node, result, pc, input_kind, use_ml_filter, ML_AVAILABLE, model_on_disk,
          model_file, ml_filter, nfiles, todo, source, issues, refactored_code, error_probability, output,
          written, discarded, log, raised>>

ruleVars == <<node, result>>
pipeVars == <<pc, input_kind, use_ml_filter, ML_AVAILABLE, model_on_disk, model_file,
              ml_filter,
              nfiles, todo, source, issues, refactored_code, error_probability, output,
              written, discarded, log, raised>>

(***************************************************************************)
(* Bounds of the model.                                                    *)
(***************************************************************************)
MaxChain == 3      \* longest if/elif chain drawn as input
MaxNest == 2       \* deepest nesting of compound statements drawn as input
MaxFiles == 2      \* most files in a directory walk
MaxLongChain == 4  \* longest chain of one repeated test drawn for the detector
MaxNestedIf == 3   \* deepest nest of conditionals, each the only statement of its parent

(***************************************************************************)
(* ast node constructors (Python's ast module, as used by the sources).    *)
(***************************************************************************)
Name(id, ctx) == [kind |-> "Name", id |-> id, ctx |-> ctx]
Constant(value) == [kind |-> "Constant", value |-> value]
Attribute(value, attr) == [kind |-> "Attribute", value |-> value, attr |-> attr]
Call(func, args) == [kind |-> "Call", func |-> func, args |-> args]
Compare(left, ops, comparators) ==
    [kind |-> "Compare", left |-> left, ops |-> ops, comparators |-> comparators]
BoolOp(op, values) == [kind |-> "BoolOp", op |-> op, values |-> values]
comprehension(target, iter, ifs, is_async) ==
    [kind |-> "comprehension", target |-> target, iter |-> iter, ifs |-> ifs,
     is_async |-> is_async]
ListComp(elt, generators) == [kind |-> "ListComp", elt |-> elt, generators |-> generators]
Lambda(body) == [kind |-> "Lambda", args |-> <<>>, body |-> body]
Dict(keys, values) == [kind |-> "Dict", keys |-> keys, values |-> values]
Expr(value) == [kind |-> "Expr", value |-> value]
Assign(targets, value) == [kind |-> "Assign", targets |-> targets, value |-> value]
AugAssign(target, op, value) ==
    [kind |-> "AugAssign", target |-> target, op |-> op, value |-> value]
For(target, iter, body, orelse) ==
    [kind |-> "For", target |-> target, iter |-> iter, body |-> body, orelse |-> orelse]
If(test, body, orelse) == [kind |-> "If", test |-> test, body |-> body, orelse |-> orelse]

Load(id) == Name(id, "Load")
Store(id) == Name(id, "Store")

(***************************************************************************)
(* Outcome of a call: a returned value or a raised exception.              *)
(***************************************************************************)
Return(v) == [raised |-> "None", value |-> v]
Raise(exc, msg) == [raised |-> exc, msg |-> msg]

(***************************************************************************)
(* Transformation rules (refactoring_engine.py).                           *)
(***************************************************************************)
\* transform_loop_to_comprehension with the whole append call, not its
\* argument, as the element of the comprehension.
transform_loop_keeps_call(for_node) ==
    IF Len(for_node.body) # 1
    THEN Raise("ValueError", "single statement in body")
    ELSE LET stmt == for_node.body[1] IN
      IF stmt.kind # "Expr" \/ stmt.value.kind # "Call"
      THEN Raise("ValueError", "no append call")
      ELSE LET call_expr == stmt.value IN
        IF \/ call_expr.func.kind # "Attribute"
           \/ call_expr.func.attr # "append"
           \/ Len(call_expr.args) # 1
        THEN Raise("ValueError", "no valid append call")
        ELSE IF call_expr.func.value.kind # "Name"
          THEN Raise("ValueError", "append not on a simple variable")
          ELSE Return(Assign(<<Store(call_expr.func.value.id)>>,
                             ListComp(call_expr,
                                 <<comprehension(for_node.target, for_node.iter, <<>>, 0)>>)))

\* transform_loop_to_comprehension without the check of the method name.
transform_loop_any_method(for_node) ==
    IF Len(for_node.body) # 1
    THEN Raise("ValueError", "single statement in body")
    ELSE LET stmt == for_node.body[1] IN
      IF stmt.kind # "Expr" \/ stmt.value.kind # "Call"
      THEN Raise("ValueError", "no append call")
      ELSE LET call_expr == stmt.value IN
        IF call_expr.func.kind # "Attribute" \/ Len(call_expr.args) # 1
        THEN Raise("ValueError", "no valid append call")
        ELSE IF call_expr.func.value.kind # "Name"
          THEN Raise("ValueError", "append not on a simple variable")
          ELSE Return(Assign(<<Store(call_expr.func.value.id)>>,
                             ListComp(call_expr.args[1],
                                 <<comprehension(for_node.target, for_node.iter, <<>>, 0)>>)))

transform_loop_to_comprehension(for_node) ==
    IF Len(for_node.body) # 1
    THEN Raise("ValueError", "single statement in body")
    ELSE LET stmt == for_node.body[1] IN
      IF stmt.kind # "Expr" \/ stmt.value.kind # "Call"
      THEN Raise("ValueError", "no append call")
      ELSE LET call_expr == stmt.value IN
        IF \/ call_expr.func.kind # "Attribute"
           \/ call_expr.func.attr # "append"
           \/ Len(call_expr.args) # 1
        THEN Raise("ValueError", "no valid append call")
        ELSE LET append_func == call_expr.func IN
          IF append_func.value.kind # "Name"
          THEN Raise("ValueError", "append not on a simple variable")
          ELSE LET result_var_name == append_func.value.id
                   appended_expr == call_expr.args[1]
                   list_comp == ListComp(appended_expr,
                                   <<comprehension(for_node.target, for_node.iter, <<>>, 0)>>)
               IN Return(Assign(<<Store(result_var_name)>>, list_comp))

\* transform_nested_if without the check that the body is one statement.
transform_nested_if_any_length(if_node) ==
    IF if_node.body[1].kind # "If"
    THEN Raise("ValueError", "no nested if as single body element")
    ELSE LET inner_if == if_node.body[1] IN
         Return(If(BoolOp("And", <<if_node.test, inner_if.test>>),
                   inner_if.body, if_node.orelse))

\* transform_nested_if with the two tests combined inner first.
transform_nested_if_inner_first(if_node) ==
    IF Len(if_node.body) # 1 \/ if_node.body[1].kind # "If"
    THEN Raise("ValueError", "no nested if as single body element")
    ELSE LET inner_if == if_node.body[1]
             combined_test == BoolOp("And", <<inner_if.test, if_node.test>>)
         IN Return(If(combined_test, inner_if.body, if_node.orelse))

transform_nested_if(if_node) ==
    IF Len(if_node.body) # 1 \/ if_node.body[1].kind # "If"
    THEN Raise("ValueError", "no nested if as single body element")
    ELSE LET inner_if == if_node.body[1]
             combined_test == BoolOp("And", <<if_node.test, inner_if.test>>)
         IN Return(If(combined_test, inner_if.body, if_node.orelse))

\* If the body is a single Expr statement its value, otherwise Constant(None).
wrap_body_in_expression(body) ==
    IF Len(body) = 1 /\ body[1].kind = "Expr"
    THEN body[1].value
    ELSE Constant("None")

\* The tag the rule puts on the else body in its chain list (line 190).
ElseTag == "__else__"

\* The while loop of transform_if_chain_to_dict with the identifier checked
\* on the head only: a later element may compare another identifier.
RECURSIVE GatherChainHeadNameOnly(_, _, _)
GatherChainHeadNameOnly(current, variable_name, chain) ==
    IF current.test.kind # "Compare" \/ Len(current.test.ops) # 1
    THEN Raise("ValueError", "not simple comparisons")
    ELSE IF current.test.ops[1] # "Eq"
    THEN Raise("ValueError", "must be equality checks")
    ELSE IF current.test.left.kind # "Name"
    THEN Raise("ValueError", "must compare a variable to a constant")
    ELSE IF ~(Len(current.test.comparators) = 1
              /\ current.test.comparators[1].kind = "Constant")
    THEN Raise("ValueError", "must compare against constants")
    ELSE LET name == IF variable_name = "None" THEN current.test.left.id ELSE variable_name
             chain1 == Append(chain, [cond |-> current.test.comparators[1].value,
                                      body |-> current.body])
         IN IF Len(current.orelse) = 1 /\ current.orelse[1].kind = "If"
            THEN GatherChainHeadNameOnly(current.orelse[1], name, chain1)
            ELSE Return([variable_name |-> name,
                         chain |-> IF current.orelse # <<>>
                                   THEN Append(chain1, [cond |-> ElseTag,
                                                        body |-> current.orelse])
                                   ELSE chain1])

\* The while loop of transform_if_chain_to_dict (lines 153-191): walks the
\* orelse links collecting (condition_value, body) pairs.  variable_name is
\* "None" until the head has been read.
RECURSIVE GatherChain(_, _, _)
GatherChain(current, variable_name, chain) ==
    IF current.test.kind # "Compare" \/ Len(current.test.ops) # 1
    THEN Raise("ValueError", "not simple comparisons")
    ELSE IF current.test.ops[1] # "Eq"
    THEN Raise("ValueError", "must be equality checks")
    ELSE LET left == current.test.left IN
      IF variable_name = "None" /\ left.kind # "Name"
      THEN Raise("ValueError", "must compare a variable to a constant")
      ELSE IF variable_name # "None" /\ ~(left.kind = "Name" /\ left.id = variable_name)
      THEN Raise("ValueError", "must compare the same variable")
      ELSE IF ~(Len(current.test.comparators) = 1
                /\ current.test.comparators[1].kind = "Constant")
      THEN Raise("ValueError", "must compare against constants")
      ELSE LET name == left.id
               condition_value == current.test.comparators[1].value
               chain1 == Append(chain, [cond |-> condition_value, body |-> current.body])
           IN IF Len(current.orelse) = 1 /\ current.orelse[1].kind = "If"
              THEN GatherChain(current.orelse[1], name, chain1)
              ELSE LET else_body == current.orelse IN
                   Return([variable_name |-> name,
                           chain |-> IF else_body # <<>>
                                     THEN Append(chain1, [cond |-> ElseTag, body |-> else_body])
                                     ELSE chain1])

\* The for loop over chain (lines 199-221): keys and lambdas of the dict, and
\* the default body.  default_body None is <<>> here: the code only tests its
\* truth value (line 233), and None and [] are both false.
RECURSIVE BuildActions(_, _, _, _)
BuildActions(chain, dict_keys, dict_values, default_body) ==
    IF chain = <<>>
    THEN [dict_keys |-> dict_keys, dict_values |-> dict_values,
          default_body |-> default_body]
    ELSE LET cond_val == Head(chain).cond
             body == Head(chain).body
         IN IF cond_val = ElseTag
            THEN BuildActions(Tail(chain), dict_keys, dict_values, body)
            ELSE BuildActions(Tail(chain),
                              Append(dict_keys, Constant(cond_val)),
                              Append(dict_values, Lambda(wrap_body_in_expression(body))),
                              default_body)

transform_if_chain_to_dict(if_node) ==
    LET gathered == GatherChain(if_node, "None", <<>>) IN
    IF gathered.raised # "None"
    THEN gathered
    ELSE LET variable_name == gathered.value.variable_name
             built == BuildActions(gathered.value.chain, <<>>, <<>>, <<>>)
             actions_assign == Assign(<<Store("actions")>>,
                                      Dict(built.dict_keys, built.dict_values))
             get_func == Attribute(Load("actions"), "get")
             get_call ==
                 IF built.default_body # <<>>
                 THEN Call(get_func,
                           <<Load(variable_name),
                             Lambda(wrap_body_in_expression(built.default_body))>>)
                 ELSE Call(get_func, <<Load(variable_name)>>)
             final_expr == Expr(Call(get_call, <<>>))
         IN Return(<<actions_assign, final_expr>>)

(***************************************************************************)
(* RefactoringEngine: each method returns the rule's result, or the        *)
(* original node when the rule raises ValueError.                          *)
(***************************************************************************)
refactor_loop(for_node) ==
    LET r == transform_loop_to_comprehension(for_node) IN
    IF r.raised = "ValueError" THEN Return(for_node) ELSE r

refactor_nested_if(if_node) ==
    LET r == transform_nested_if(if_node) IN
    IF r.raised = "ValueError" THEN Return(if_node) ELSE r

\* refactor_if_chain answering a mismatch with an empty list.
refactor_if_chain_empty_on_mismatch(if_node) ==
    LET r == transform_if_chain_to_dict(if_node) IN
    IF r.raised = "ValueError" THEN Return(<<>>) ELSE r

refactor_if_chain(if_node) ==
    LET r == transform_if_chain_to_dict(if_node) IN
    IF r.raised = "ValueError" THEN Return(<<if_node>>) ELSE r

(***************************************************************************)
(* Bounded input sets: the expressions, statements and trees drawn.        *)
(***************************************************************************)
CallStmt(f) == Expr(Call(Load(f), <<>>))
AppendStmt(recv, e) == Expr(Call(Attribute(recv, "append"), <<e>>))

AppendedExprs == {Load("i"), Call(Load("f"), <<Load("i")>>)}

\* Single statements a loop body is drawn from: the append shape and its
\* near misses.
LoopStmts ==
    {AppendStmt(Load("result"), e) : e \in AppendedExprs}
    \cup {AppendStmt(Attribute(Load("self"), "result"), Load("i")),
          Expr(Call(Attribute(Load("result"), "extend"), <<Load("i")>>)),
          Expr(Call(Attribute(Load("result"), "append"), <<Load("i"), Load("i")>>)),
          Expr(Call(Attribute(Load("result"), "append"), <<>>)),
          Expr(Call(Load("print"), <<Load("i")>>)),
          Expr(Load("i")),
          Assign(<<Store("result")>>, Constant("1")),
          AugAssign(Store("result"), "Add", Load("i"))}

LoopBodies ==
    {<<s>> : s \in LoopStmts}
    \cup {<<AppendStmt(Load("result"), Load("i")), s>> :
             s \in {CallStmt("f"), AppendStmt(Load("result"), Load("i"))}}

LoopNodes ==
    {For(t, it, b, o) :
        t \in {Store("i")},
        it \in {Load("xs"), Call(Load("range"), <<Constant("5")>>)},
        b \in LoopBodies,
        o \in {<<>>, <<CallStmt("g")>>}}

\* Conditions of a chain element: same-identifier equality tests against
\* literals (the tag value among them) and the shapes the chain rule rejects.
EqTest(id, v) == Compare(Load(id), <<"Eq">>, <<Constant(v)>>)
EqualityTests == {EqTest("x", "1"), EqTest("x", "2"), EqTest("x", ElseTag)}
OtherTests ==
    {EqTest("y", "1"),
     Compare(Load("x"), <<"Lt">>, <<Constant("1")>>),
     Compare(Load("x"), <<"Eq">>, <<Load("y")>>),
     Compare(Load("x"), <<"Eq", "Eq">>, <<Constant("1"), Constant("2")>>),
     Compare(Attribute(Load("o"), "x"), <<"Eq">>, <<Constant("1")>>),
     Load("a")}
ChainTests == EqualityTests \cup OtherTests

\* Bodies of the head branch, and else bodies, of a drawn chain.
BranchBodies == {<<CallStmt("f")>>,
                 <<Assign(<<Store("r")>>, Constant("1"))>>,
                 <<CallStmt("f"), CallStmt("g")>>}
ElseBodies == {<<>>, <<CallStmt("d")>>}

\* if/elif chains of exactly k conditionals over the tests T, ending in one
\* of the else bodies E; the elif bodies are a single call.
RECURSIVE ChainsOf(_, _, _)
ChainsOf(k, T, E) ==
    IF k = 1
    THEN {If(t, <<CallStmt("f")>>, e) : t \in T, e \in E}
    ELSE {If(t, <<CallStmt("f")>>, <<c>>) : t \in T, c \in ChainsOf(k - 1, T, E)}

Chains(T, E) == UNION {ChainsOf(k, T, E) : k \in 1..MaxChain}

\* The chain c with the test of its i-th conditional replaced by t.
RECURSIVE WithTest(_, _, _)
WithTest(c, i, t) ==
    IF i = 1 THEN [c EXCEPT !.test = t]
    ELSE [c EXCEPT !.orelse = <<WithTest(c.orelse[1], i - 1, t)>>]

RECURSIVE ChainLen(_)
ChainLen(c) ==
    IF Len(c.orelse) = 1 /\ c.orelse[1].kind = "If" THEN 1 + ChainLen(c.orelse[1]) ELSE 1

\* Chains handed to the chain rule: equality chains, and equality chains
\* with one rejected test at any one position (the rule stops at the first
\* test it rejects); the head body is drawn from BranchBodies.
RuleChains ==
    LET good == Chains(EqualityTests, ElseBodies) IN
    good \cup {WithTest(c, i, t) : <<c, i>> \in {ci \in good \X (1..MaxChain) : ci[2] <= ChainLen(ci[1])},
                                   t \in OtherTests}

ChainNodes == {If(c.test, b, c.orelse) : c \in RuleChains, b \in BranchBodies}

\* Simple statements of the drawn programs.
SimpleStmts ==
    {CallStmt("f"),
     AppendStmt(Load("result"), Load("i")),
     Expr(Call(Attribute(Load("result"), "extend"), <<Load("i")>>)),
     Assign(<<Store("result")>>, Constant("1")),
     AugAssign(Store("result"), "Add", Load("i"))}

\* One more level of nesting around the statement s: a loop or a conditional
\* holding s alone or s followed by a call, with or without an else.
Wrap(s) ==
    {For(Store("i"), Load("xs"), <<s>>, <<>>),
     For(Store("i"), Load("xs"), <<s, CallStmt("f")>>, <<>>),
     If(Load("a"), <<s>>, <<>>),
     If(Load("a"), <<s>>, <<CallStmt("g")>>),
     If(Load("a"), <<s, CallStmt("f")>>, <<>>)}

\* Statements nested at most d deep.
RECURSIVE Nest(_)
Nest(d) ==
    IF d = 0 THEN SimpleStmts
    ELSE LET inner == Nest(d - 1) IN inner \cup UNION {Wrap(s) : s \in inner}

\* Chains of the drawn programs: what the detector and the orchestrator see.
ProgramChains ==
    Chains({EqTest("x", "1"), EqTest("y", "1"),
            Compare(Load("x"), <<"Lt">>, <<Constant("1")>>)}, ElseBodies)

\* Longer chains, of one repeated equality test, for the chain detector.
LongChains ==
    UNION {ChainsOf(k, {EqTest("x", "1")}, ElseBodies) : k \in (MaxChain + 1)..MaxLongChain}

\* Statements of the drawn programs: nested statements, chains, and chains
\* under one level of nesting.
ProgramStmts ==
    Nest(MaxNest) \cup ProgramChains \cup UNION {Wrap(c) : c \in ProgramChains}
    \cup LongChains

\* Module bodies.
Programs == {<<s>> : s \in ProgramStmts}

\* Conditionals nested k deep, each the only statement of its parent's
\* body, with a test of its own at each depth (a, b, c, ...); the innermost
\* holds a call or an append loop.
NestTests == <<Load("a"), Load("b"), Load("c"), Load("d"), Load("e")>>

RECURSIVE NestedIfsOf(_, _)
NestedIfsOf(d, k) ==
    IF d = k
    THEN {If(NestTests[d], b, e) :
             b \in {<<CallStmt("f")>>,
                    <<For(Store("i"), Load("xs"), <<AppendStmt(Load("result"), Load("i"))>>, <<>>)>>},
             e \in ElseBodies}
    ELSE {If(NestTests[d], <<inner>>, e) : inner \in NestedIfsOf(d + 1, k), e \in ElseBodies}

NestedIfs == UNION {NestedIfsOf(1, k) : k \in 2..MaxNestedIf}

\* Nodes handed to the rules.
RuleInputs ==
    LoopNodes \cup ChainNodes \cup {s \in Nest(MaxNest) : s.kind \in {"For", "If"}}
    \cup NestedIfs

(***************************************************************************)
(* Files and text.  A source text is modelled by the tree it parses to; a  *)
(* text that does not parse is BadText.  Text written by astor.to_source   *)
(* is a different value from the text read, also for the same tree: the    *)
(* unparser does not reproduce the layout of its input.                    *)
(***************************************************************************)
None == [kind |-> "None"]
Module(body) == [kind |-> "Module", body |-> body]
SourceText(body) == [kind |-> "text", by |-> "author", body |-> body]
BadText == [kind |-> "text", by |-> "author", body |-> <<>>, error |-> "SyntaxError"]
MissingFile == [kind |-> "missing"]
File(text) == [kind |-> "file", text |-> text]

read_python_file(file) ==
    IF file.kind = "missing"
    THEN Raise("FileNotFoundError", "does not exist")
    ELSE Return(file.text)

\* A text ast.parse does not accept, of n lines: e is what ast.parse raises
\* on it.  Malformed syntax raises SyntaxError; a text holding a null byte
\* raises ValueError on the interpreters setup.py declares (3.6 to 3.10) and
\* SyntaxError on later ones.
Unparseable(e, n) ==
    [kind |-> "text", by |-> "author", body |-> <<>>, error |-> e, lines |-> n]

\* ast.parse: the tree of a text, or the exception of a text without one.
ast_parse(code) ==
    IF "error" \in DOMAIN code
    THEN Raise(code.error, "ast.parse")
    ELSE Return(Module(code.body))

\* generate_ast: a SyntaxError of ast.parse is raised again with a message of
\* its own; any other exception passes through.
generate_ast(code) ==
    LET tree == ast_parse(code) IN
    IF tree.raised = "SyntaxError"
    THEN Raise("SyntaxError", "Syntax error in code")
    ELSE tree

\* astor.to_source: the text of a tree (every drawn tree can be unparsed).
to_source(tree) == [kind |-> "text", by |-> "astor", body |-> tree.body]

(***************************************************************************)
(* Pattern detectors (parser.py).  An issue carries the position of its    *)
(* node (the path from the module root), the message and the node.         *)
(***************************************************************************)
LoopMessage == "For-loop can be converted to a list comprehension."
NestedIfMessage == "Nested if-statements can be merged."
IfChainMessage == "If-elif-else chain can be replaced with a dictionary."

report_issue(pos, n, message) == [pos |-> pos, message |-> message, node |-> n]

is_append_loop(n) ==
    IF Len(n.body) # 1 THEN FALSE
    ELSE LET stmt == n.body[1] IN
         IF stmt.kind \in {"Expr", "Assign"}
         THEN IF stmt.kind = "Assign" THEN TRUE
              ELSE LET expr == stmt.value IN
                   /\ expr.kind = "Call"
                   /\ expr.func.kind = "Attribute"
                   /\ expr.func.attr = "append"
         ELSE FALSE

is_nested_if(n) == Len(n.body) = 1 /\ n.body[1].kind = "If"

\* The while loop of get_if_chain_length, from the orelse list current_node
\* with the count so far.
RECURSIVE ChainLengthFrom(_, _)
ChainLengthFrom(current_node, length) ==
    IF current_node # <<>> /\ Len(current_node) = 1 /\ current_node[1].kind = "If"
    THEN ChainLengthFrom(current_node[1].orelse, length + 1)
    ELSE length

get_if_chain_length(n) == ChainLengthFrom(n.orelse, 1)

\* visit_For / visit_If of the detector det: whether it reports the node.
Reports(det, n) ==
    CASE det = "loop" -> n.kind = "For" /\ is_append_loop(n)
      [] det = "nested_if" -> n.kind = "If" /\ is_nested_if(n)
      [] det = "if_chain" -> n.kind = "If" /\ get_if_chain_length(n) >= 3

MessageOf(det) ==
    CASE det = "loop" -> LoopMessage
      [] det = "nested_if" -> NestedIfMessage
      [] det = "if_chain" -> IfChainMessage

\* NodeVisitor.visit: the node first, then generic_visit over its statement
\* lists in field order (body, orelse).  Expressions hold no statements.
RECURSIVE DetectorVisit(_, _, _)
RECURSIVE DetectorVisitList(_, _, _, _, _)
DetectorVisitList(det, stmts, pos, field, i) ==
    IF i > Len(stmts) THEN <<>>
    ELSE DetectorVisit(det, stmts[i], Append(pos, [f |-> field, i |-> i]))
         \o DetectorVisitList(det, stmts, pos, field, i + 1)

DetectorVisit(det, n, pos) ==
    (IF n.kind \in {"For", "If"} /\ Reports(det, n)
     THEN <<report_issue(pos, n, MessageOf(det))>> ELSE <<>>)
    \o (IF n.kind \in {"For", "If", "Module"}
        THEN DetectorVisitList(det, n.body, pos, "body", 1) ELSE <<>>)
    \o (IF n.kind \in {"For", "If"}
        THEN DetectorVisitList(det, n.orelse, pos, "orelse", 1) ELSE <<>>)

NoIssues == [loop |-> <<>>, nested_if |-> <<>>, if_chain |-> <<>>]

RunDetectors(tree) ==
    [loop |-> DetectorVisit("loop", tree, <<>>),
     nested_if |-> DetectorVisit("nested_if", tree, <<>>),
     if_chain |-> DetectorVisit("if_chain", tree, <<>>)]

\* analyze_file without its try/except: the exception reaches the caller.
analyze_file_uncaught(file) ==
    LET code == read_python_file(file) IN
    IF code.raised # "None" THEN code
    ELSE LET tree == generate_ast(code.value) IN
         IF tree.raised # "None" THEN tree
         ELSE Return(RunDetectors(tree.value))

\* analyze_file: any exception of reading or parsing is caught, reported on
\* standard output, and three empty lists are returned.
analyze_file(file) ==
    LET code == read_python_file(file) IN
    IF code.raised # "None" THEN Return(NoIssues)
    ELSE LET tree == generate_ast(code.value) IN
         IF tree.raised # "None" THEN Return(NoIssues)
         ELSE Return(RunDetectors(tree.value))

(***************************************************************************)
(* Orchestrator (cli.py): RefactoringVisitor, an ast.NodeTransformer.      *)
(* A visit method returns one node or a list of nodes.  Next to what it    *)
(* returns, every visit carries the calls made while it ran, in order: the *)
(* visit of a node (with the position of the node in the input tree) and   *)
(* the call of an engine method (with the position of the node being       *)
(* visited and the node handed to the method).                             *)
(***************************************************************************)
AsNode(n) == [is |-> "node", node |-> n]
AsList(l) == [is |-> "list", nodes |-> l]

Visited(pos, n) == [ev |-> "visit", pos |-> pos, node |-> n]
EngineCall(rule, pos, arg) == [ev |-> "call", rule |-> rule, pos |-> pos, arg |-> arg]

RECURSIVE visit(_, _)
RECURSIVE visit_values(_, _, _, _)
RECURSIVE generic_visit(_, _)

\* NodeTransformer.generic_visit over one list field: a returned node is
\* appended, a returned list is spliced in.
visit_values(old_value, pos, field, i) ==
    IF i > Len(old_value) THEN [nodes |-> <<>>, calls |-> <<>>]
    ELSE LET value == visit(old_value[i], Append(pos, [f |-> field, i |-> i]))
             rest == visit_values(old_value, pos, field, i + 1)
         IN [nodes |-> (IF value.is = "list" THEN value.nodes ELSE <<value.node>>)
                       \o rest.nodes,
             calls |-> value.calls \o rest.calls]

generic_visit(n, pos) ==
    IF n.kind \in {"For", "If"}
    THEN LET body == visit_values(n.body, pos, "body", 1)
             orelse == visit_values(n.orelse, pos, "orelse", 1)
         IN [node |-> [n EXCEPT !.body = body.nodes, !.orelse = orelse.nodes],
             calls |-> body.calls \o orelse.calls]
    ELSE IF n.kind = "Module"
    THEN LET body == visit_values(n.body, pos, "body", 1)
         IN [node |-> [n EXCEPT !.body = body.nodes], calls |-> body.calls]
    ELSE [node |-> n, calls |-> <<>>]

visit_For(n, pos) ==
    LET g == generic_visit(n, pos) IN
    [is |-> "node",
     node |-> refactor_loop(g.node).value,
     calls |-> Append(g.calls, EngineCall("refactor_loop", pos, g.node))]

\* visit_If with the rules evaluated on the node before its children are
\* visited.
visit_If_rules_first(n, pos) ==
    LET n2 == refactor_nested_if(n).value
        g == generic_visit(n2, pos)
    IN [is |-> "node",
        node |-> g.node,
        calls |-> <<EngineCall("refactor_nested_if", pos, n),
                    EngineCall("refactor_if_chain", pos, n2)>> \o g.calls]

\* visit_If visiting again the conditional the nested-if rule produced.
visit_If_revisits(n, pos) ==
    LET g == generic_visit(n, pos)
        n1 == g.node
        n2 == refactor_nested_if(n1).value
        calls == g.calls \o <<EngineCall("refactor_nested_if", pos, n1),
                              EngineCall("refactor_if_chain", pos, n2)>>
    IN IF n2 # n1
       THEN LET again == visit(n2, pos) IN
            [is |-> "node", node |-> again.node, calls |-> calls \o again.calls]
       ELSE [is |-> "node", node |-> n2, calls |-> calls]

visit_If(n, pos) ==
    LET g == generic_visit(n, pos)
        n1 == g.node
        n2 == IF n1.kind = "If" THEN refactor_nested_if(n1).value ELSE n1
        nested == Append(g.calls, EngineCall("refactor_nested_if", pos, n1))
    IN IF n2.kind = "If"
       THEN LET chain == refactor_if_chain(n2).value
                calls == Append(nested, EngineCall("refactor_if_chain", pos, n2))
            IN IF Len(chain) = 1 /\ chain[1].kind = "If"
               THEN [is |-> "node", node |-> chain[1], calls |-> calls]
               ELSE IF Len(chain) = 2
               THEN [is |-> "node", node |-> n2, calls |-> calls]
               ELSE [is |-> "node", node |-> n2, calls |-> calls]
       ELSE [is |-> "node", node |-> n2, calls |-> nested]

\* NodeTransformer.visit: the visit method of the node's class, or
\* generic_visit.
visit(n, pos) ==
    LET v == CASE n.kind = "For" -> visit_For(n, pos)
               [] n.kind = "If" -> visit_If(n, pos)
               [] OTHER -> [is |-> "node", node |-> generic_visit(n, pos).node,
                            calls |-> generic_visit(n, pos).calls]
    IN [v EXCEPT !.calls = <<Visited(pos, n)>> \o @]

refactor_ast(tree) == visit(tree, <<>>).node

\* The visits and engine calls of one refactor_ast, in order.
refactor_ast_calls(tree) == visit(tree, <<>>).calls

\* apply_refactorings: None when the file cannot be read or parsed,
\* otherwise the unparsed transformed tree.
apply_refactorings(file) ==
    LET code == read_python_file(file) IN
    IF code.raised # "None" THEN None
    ELSE LET tree == generate_ast(code.value) IN
         IF tree.raised # "None" THEN None
         ELSE to_source(refactor_ast(tree.value))

(***************************************************************************)
(* Rule development: one rule, or one engine method, is called on a node.  *)
(***************************************************************************)
NotCalled == [called |-> "none"]
Called(f, r) == [called |-> f, out |-> r]

TransformLoop ==
    /\ result = NotCalled /\ node.kind = "For"
    /\ result' = Called("transform_loop_to_comprehension",
                        transform_loop_to_comprehension(node))
    /\ UNCHANGED <<node, pipeVars>>

TransformNestedIf ==
    /\ result = NotCalled /\ node.kind = "If"
    /\ result' = Called("transform_nested_if", transform_nested_if(node))
    /\ UNCHANGED <<node, pipeVars>>

TransformIfChain ==
    /\ result = NotCalled /\ node.kind = "If"
    /\ result' = Called("transform_if_chain_to_dict", transform_if_chain_to_dict(node))
    /\ UNCHANGED <<node, pipeVars>>

RefactorLoop ==
    /\ result = NotCalled /\ node.kind = "For"
    /\ result' = Called("refactor_loop", refactor_loop(node))
    /\ UNCHANGED <<node, pipeVars>>

RefactorNestedIf ==
    /\ result = NotCalled /\ node.kind = "If"
    /\ result' = Called("refactor_nested_if", refactor_nested_if(node))
    /\ UNCHANGED <<node, pipeVars>>

RefactorIfChain ==
    /\ result = NotCalled /\ node.kind = "If"
    /\ result' = Called("refactor_if_chain", refactor_if_chain(node))
    /\ UNCHANGED <<node, pipeVars>>

\* refactor_ast on the module holding the node alone.
RefactorAst ==
    /\ result = NotCalled
    /\ result' = [called |-> "refactor_ast",
                   out |-> Return(refactor_ast(Module(<<node>>))),
                   calls |-> refactor_ast_calls(Module(<<node>>))]
    /\ UNCHANGED <<node, pipeVars>>

PipeIdle ==
    /\ pc = "idle" /\ input_kind = "invalid" /\ use_ml_filter = FALSE
    /\ ML_AVAILABLE = FALSE /\ model_on_disk = FALSE /\ model_file = None
    /\ ml_filter = None
    /\ nfiles = 0 /\ todo = 0
    /\ source = None /\ issues = NoIssues /\ refactored_code = None
    /\ error_probability = -1 /\ output = None /\ written = 0
    /\ discarded = 0 /\ log = <<>> /\ raised = "None"

InitRules == node \in RuleInputs /\ result = NotCalled /\ PipeIdle

NextRules ==
    \/ TransformLoop
    \/ TransformNestedIf
    \/ TransformIfChain
    \/ RefactorLoop
    \/ RefactorNestedIf
    \/ RefactorIfChain
    \/ RefactorAst

SpecRules == InitRules /\ [][NextRules]_vars
(***************************************************************************)
(* Tree development: analyze_file, then apply_refactorings, called on one  *)
(* file (as the tests of the parser call analyze_file).                    *)
(***************************************************************************)
TreeFiles == {MissingFile, File(BadText)} \cup {File(SourceText(p)) : p \in Programs}

CallAnalyzeFile ==
    /\ pc = "start"
    /\ LET r == analyze_file(source) IN
       /\ raised' = r.raised
       /\ issues' = IF r.raised = "None" THEN r.value ELSE NoIssues
    /\ pc' = "analyzed"
    /\ UNCHANGED <<ruleVars, input_kind, use_ml_filter, ML_AVAILABLE, model_on_disk,
                   model_file,
                   ml_filter, nfiles, todo, source, refactored_code, error_probability, output, written,
                   discarded, log>>

CallApplyRefactorings ==
    /\ pc = "analyzed" /\ raised = "None"
    /\ refactored_code' = apply_refactorings(source)
    /\ pc' = "refactored"
    /\ UNCHANGED <<ruleVars, input_kind, use_ml_filter, ML_AVAILABLE, model_on_disk,
                   model_file,
                   ml_filter, nfiles, todo, source, issues, error_probability, output, written, discarded,
                   log, raised>>

InitTree ==
    /\ node = None /\ result = NotCalled
    /\ pc = "start" /\ source \in TreeFiles
    /\ input_kind = "file" /\ use_ml_filter = FALSE
    /\ ML_AVAILABLE = FALSE /\ model_on_disk = FALSE /\ model_file = None
    /\ ml_filter = None
    /\ nfiles = 1 /\ todo = 0
    /\ issues = NoIssues /\ refactored_code = None
    /\ error_probability = -1 /\ output = None /\ written = 0
    /\ discarded = 0 /\ log = <<>> /\ raised = "None"

NextTree ==
    \/ CallAnalyzeFile
    \/ CallApplyRefactorings

SpecTree == InitTree /\ [][NextTree]_vars

(***************************************************************************)
(* Risk classifier (ml_filter.py), as far as the command line uses it.     *)
(* The trained model is opaque: its probability is drawn from a grid of    *)
(* hundredths around the threshold.                                        *)
(***************************************************************************)
MLErrorFilter == [kind |-> "MLErrorFilter", model |-> None]
Probabilities == {0, 29, 30, 31, 100}

Max(S) == CHOOSE m \in UNION {{k \in T : \A j \in T : j <= k} : T \in {S}} : TRUE

\* A child node without children of its own: an expression context (Load,
\* Store), an operator (Eq, And, Add) or the arguments of a lambda.
Leaf(k) == [kind |-> k]

\* ast.iter_child_nodes: the nodes held by the fields of n, in field order.
iter_child_nodes(n) ==
    CASE n.kind = "Module" -> n.body
      [] n.kind = "For" -> <<n.target, n.iter>> \o n.body \o n.orelse
      [] n.kind = "If" -> <<n.test>> \o n.body \o n.orelse
      [] n.kind = "Expr" -> <<n.value>>
      [] n.kind = "Assign" -> n.targets \o <<n.value>>
      [] n.kind = "AugAssign" -> <<n.target, Leaf(n.op), n.value>>
      [] n.kind = "Name" -> <<Leaf(n.ctx)>>
      [] n.kind = "Attribute" -> <<n.value, Leaf("Load")>>
      [] n.kind = "Call" -> <<n.func>> \o n.args
      [] n.kind = "Compare" ->
            <<n.left>> \o [i \in 1..Len(n.ops) |-> Leaf(n.ops[i])] \o n.comparators
      [] n.kind = "BoolOp" -> <<Leaf(n.op)>> \o n.values
      [] n.kind = "ListComp" -> <<n.elt>> \o n.generators
      [] n.kind = "comprehension" -> <<n.target, n.iter>> \o n.ifs
      [] n.kind = "Lambda" -> <<Leaf("arguments"), n.body>>
      [] n.kind = "Dict" -> n.keys \o n.values
      [] OTHER -> <<>>

\* Lines of a statement list laid out one statement per line, an `else:`
\* on a line of its own and a lone conditional in an orelse as `elif`.
RECURSIVE LayoutLines(_)
LayoutLines(stmts) ==
    IF stmts = <<>> THEN 0
    ELSE LET s == Head(stmts)
             own ==
               IF s.kind \in {"For", "If"}
               THEN 1 + LayoutLines(s.body)
                    + (IF s.orelse = <<>> THEN 0
                       ELSE IF s.kind = "If" /\ Len(s.orelse) = 1 /\ s.orelse[1].kind = "If"
                       THEN LayoutLines(s.orelse)
                       ELSE 1 + LayoutLines(s.orelse))
               ELSE 1
         IN own + LayoutLines(Tail(stmts))

\* numpy.mean, in whole units.
RECURSIVE SumOf(_)
SumOf(xs) == IF xs = <<>> THEN 0 ELSE Head(xs) + SumOf(Tail(xs))

mean(xs) == SumOf(xs) \div Len(xs)

\* radon's cc_visit: the function and class blocks of a tree.  The drawn
\* statements define neither, so no text has a block.
cc_visit(tree) == <<>>

\* compute_cyclomatic_complexity: 0.0 without blocks or when anything is
\* raised (lines 121-129).
compute_cyclomatic_complexity(code) ==
    LET tree == ast_parse(code) IN
    IF tree.raised # "None" THEN Return(0)
    ELSE LET blocks == cc_visit(tree.value) IN
         IF blocks = <<>> THEN Return(0) ELSE Return(mean(blocks))

\* compute_code_length: len(code.strip().split('\n')), which is 1 for the
\* empty text.
compute_code_length(code) ==
    IF "lines" \in DOMAIN code THEN Return(code.lines)
    ELSE Return(Max({1, LayoutLines(code.body)}))

\* get_depth (lines 156-164): the deepest level reached under n.
RECURSIVE get_depth(_, _)
get_depth(n, current_depth) ==
    Max({current_depth}
        \cup UNION {{get_depth(children[i], current_depth + 1) : i \in 1..Len(children)} :
                      children \in {iter_child_nodes(n)}})

\* estimate_nesting_depth: only SyntaxError is caught (lines 151-154).
estimate_nesting_depth(code) ==
    LET tree == ast_parse(code) IN
    IF tree.raised = "SyntaxError" THEN Return(0)
    ELSE IF tree.raised # "None" THEN tree
    ELSE Return(Max({get_depth(tree.value, 0) - 1, 0}))

\* The loop of count_variables over ast.walk: Name nodes in Load context.
RECURSIVE CountLoads(_)
RECURSIVE CountLoadsIn(_, _)
CountLoadsIn(children, i) ==
    IF i > Len(children) THEN 0
    ELSE CountLoads(children[i]) + CountLoadsIn(children, i + 1)

CountLoads(n) ==
    (IF n.kind = "Name" /\ n.ctx = "Load" THEN 1 ELSE 0)
    + CountLoadsIn(iter_child_nodes(n), 1)

\* count_variables: only SyntaxError is caught (lines 196-199).
count_variables(code) ==
    LET tree == ast_parse(code) IN
    IF tree.raised = "SyntaxError" THEN Return(0)
    ELSE IF tree.raised # "None" THEN tree
    ELSE Return(CountLoads(tree.value))

estimate_variable_usage_difference(code_before, code_after) ==
    LET before_count == count_variables(code_before) IN
    IF before_count.raised # "None" THEN before_count
    ELSE LET after_count == count_variables(code_after) IN
         IF after_count.raised # "None" THEN after_count
         ELSE Return(after_count.value - before_count.value)

\* The keys of the dict extract_features builds, in insertion order.
FeatureKeys ==
    <<"complexity_before", "complexity_after", "complexity_change",
      "length_before", "length_after", "length_change",
      "nesting_before", "nesting_after", "nesting_change",
      "variable_usage_diff">>

\* extract_features: the ten features as an ordered mapping (a sequence of
\* key/value pairs); an exception of one of the measures reaches the caller.
extract_features(code_before, code_after) ==
    LET complexity_before == compute_cyclomatic_complexity(code_before).value
        complexity_after == compute_cyclomatic_complexity(code_after).value
        length_before == compute_code_length(code_before).value
        length_after == compute_code_length(code_after).value
        nesting_before == estimate_nesting_depth(code_before)
        nesting_after == estimate_nesting_depth(code_after)
        var_usage_diff == estimate_variable_usage_difference(code_before, code_after)
    IN IF nesting_before.raised # "None" THEN nesting_before
       ELSE IF nesting_after.raised # "None" THEN nesting_after
       ELSE IF var_usage_diff.raised # "None" THEN var_usage_diff
       ELSE LET values ==
                  <<complexity_before, complexity_after,
                    complexity_after - complexity_before,
                    length_before, length_after, length_after - length_before,
                    nesting_before.value, nesting_after.value,
                    nesting_after.value - nesting_before.value,
                    var_usage_diff.value>>
            IN Return([i \in 1..Len(FeatureKeys) |->
                          [key |-> FeatureKeys[i], value |-> values[i]]])

\* The columns of the frame built from feature mappings.
Columns(feats) == [i \in 1..Len(feats) |-> feats[i].key]

\* A fitted estimator: trained_on is the columns of the frame it was fitted
\* on.  pickle stores the estimator alone.
FittedModel(columns) ==
    [kind |-> "model", path |-> "models/model.pkl", trained_on |-> columns]

\* What train_model of this extractor leaves at models/model.pkl.
PersistedModel == FittedModel(FeatureKeys)

\* What models/model.pkl may hold: the estimator of this extractor, and
\* estimators fitted by another release of the extractor, one without the
\* last feature and one that names it differently.
ModelFiles ==
    {PersistedModel,
     FittedModel(SubSeq(FeatureKeys, 1, 9)),
     FittedModel(SubSeq(FeatureKeys, 1, 9) \o <<"variable_count_change">>)}

\* The estimator's predict_proba(X)[0][1] (line 274): the estimator checks
\* the number of columns of X against the frame it was fitted on; prob is
\* the probability it then gives.
predict_proba(model, X, prob) ==
    IF Len(X) # Len(model.trained_on)
    THEN Raise("ValueError", "X has a different number of features")
    ELSE Return(prob)

load_model(self, on_disk, file) ==
    IF ~on_disk
    THEN Raise("FileNotFoundError", "No model file found")
    ELSE Return([self EXCEPT !.model = file])

\* predict_refactoring_error with a failed load answered by a probability
\* of zero instead of the exception.
predict_refactoring_error_defaulting(self, on_disk, file, code_before, code_after, prob) ==
    LET loaded == IF self.model = None THEN load_model(self, on_disk, file) ELSE Return(self) IN
    IF loaded.raised # "None" THEN [self |-> self, out |-> Return(0)]
    ELSE LET feats == extract_features(code_before, code_after) IN
         IF feats.raised # "None" THEN [self |-> loaded.value, out |-> feats]
         ELSE [self |-> loaded.value,
               out |-> predict_proba(loaded.value.model, feats.value, prob)]

\* predict_refactoring_error loading the model file on every call.
predict_refactoring_error_reloading(self, on_disk, file, code_before, code_after, prob) ==
    LET loaded == load_model(self, on_disk, file) IN
    IF loaded.raised # "None" THEN [self |-> self, out |-> loaded]
    ELSE LET feats == extract_features(code_before, code_after) IN
         IF feats.raised # "None" THEN [self |-> loaded.value, out |-> feats]
         ELSE [self |-> loaded.value,
               out |-> predict_proba(loaded.value.model, feats.value, prob)]

\* predict_refactoring_error: the filter object after the call (the model
\* stays resident once loaded) and the probability returned or the
\* exception raised.
predict_refactoring_error(self, on_disk, file, code_before, code_after, prob) ==
    LET loaded == IF self.model = None THEN load_model(self, on_disk, file) ELSE Return(self) IN
    IF loaded.raised # "None" THEN [self |-> self, out |-> loaded]
    ELSE LET feats == extract_features(code_before, code_after) IN
         IF feats.raised # "None" THEN [self |-> loaded.value, out |-> feats]
         ELSE [self |-> loaded.value,
               out |-> predict_proba(loaded.value.model, feats.value, prob)]

\* A training dataset: the csv file at data_path.
MissingData == [kind |-> "missing"]
Data(columns, rows) == [kind |-> "csv", columns |-> columns, rows |-> rows]
DataColumns == {"code_before", "code_after", "error_introduced"}

\* The loop of load_data (lines 61-63): the feature mapping of each row.
RECURSIVE FeatureRows(_)
FeatureRows(rows) ==
    IF rows = <<>> THEN Return(<<>>)
    ELSE LET feats == extract_features(Head(rows).code_before, Head(rows).code_after) IN
         IF feats.raised # "None" THEN feats
         ELSE LET rest == FeatureRows(Tail(rows)) IN
              IF rest.raised # "None" THEN rest
              ELSE Return(<<feats.value>> \o rest.value)

load_data(data) ==
    IF data.kind = "missing"
    THEN Raise("FileNotFoundError", "Data file not found")
    ELSE IF ~(DataColumns \subseteq data.columns)
    THEN Raise("ValueError", "Dataset must contain the three columns")
    ELSE FeatureRows(data.rows)

\* train_model: the filter object, the model file and the outcome.  With
\* rows to split and fit on, the best estimator of the search is pickled
\* alone (lines 243-245) and made resident (line 247); without rows the
\* split raises ValueError.
train_model(self, on_disk, file, data) ==
    LET X == load_data(data) IN
    IF X.raised # "None"
    THEN [self |-> self, on_disk |-> on_disk, file |-> file, out |-> X]
    ELSE IF X.value = <<>>
    THEN [self |-> self, on_disk |-> on_disk, file |-> file,
          out |-> Raise("ValueError", "train set will be empty")]
    ELSE LET best_model == FittedModel(Columns(X.value[1])) IN
         [self |-> [self EXCEPT !.model = best_model], on_disk |-> TRUE,
          file |-> best_model, out |-> Return(None)]

\* Texts handed to the extractor as code_before: the empty text, texts that
\* parse, and texts ast.parse does not accept.
Snippets ==
    {SourceText(<<>>),
     SourceText(<<Assign(<<Store("result")>>, Constant("1")),
                  For(Store("i"), Load("xs"), <<AppendStmt(Load("result"), Load("i"))>>, <<>>)>>),
     SourceText(<<If(Load("a"), <<If(Load("a"), <<CallStmt("f")>>, <<>>)>>,
                     <<CallStmt("g")>>)>>),
     BadText,
     Unparseable("SyntaxError", 3),
     Unparseable("ValueError", 1)}

\* Texts handed to the extractor as code_after.
AfterSnippets ==
    {SourceText(<<>>),
     to_source(Module(<<If(BoolOp("And", <<Load("a"), Load("a")>>), <<CallStmt("f")>>,
                           <<CallStmt("g")>>)>>)),
     Unparseable("SyntaxError", 3),
     Unparseable("ValueError", 1)}

Row(b, a) == [code_before |-> b, code_after |-> a]

Datasets ==
    {MissingData,
     Data({"code_before", "code_after"}, <<Row(SourceText(<<>>), SourceText(<<>>))>>),
     Data(DataColumns, <<>>),
     Data(DataColumns, <<Row(SourceText(<<CallStmt("f")>>), SourceText(<<CallStmt("g")>>)),
                         Row(BadText, SourceText(<<>>))>>),
     Data(DataColumns, <<Row(SourceText(<<>>), Unparseable("ValueError", 1))>>)}

(***************************************************************************)
(* Filter development: the methods of one MLErrorFilter object are called  *)
(* in any order (as the tests of the filter and its command line do).      *)
(***************************************************************************)
CalledWith(f, args, r) == [called |-> f, args |-> args, out |-> r]

ExtractFeatures ==
    /\ pc = "filter"
    /\ \E b \in Snippets, a \in AfterSnippets :
          result' = CalledWith("extract_features", <<b, a>>, extract_features(b, a))
    /\ UNCHANGED <<node, pipeVars>>

LoadModel ==
    /\ pc = "filter"
    /\ LET r == load_model(ml_filter, model_on_disk, model_file) IN
       /\ result' = CalledWith("load_model", <<>>, r)
       /\ ml_filter' = IF r.raised = "None" THEN r.value ELSE ml_filter
    /\ UNCHANGED <<node, pc, input_kind, use_ml_filter, ML_AVAILABLE, model_on_disk,
                   model_file, nfiles, todo, source, issues, refactored_code,
                   error_probability, output, written, discarded, log, raised>>

PredictRefactoringError ==
    /\ pc = "filter"
    /\ \E b \in Snippets, a \in AfterSnippets, prob \in Probabilities :
          \E r \in {predict_refactoring_error(ml_filter, model_on_disk, model_file,
                                               b, a, prob)} :
              /\ result' = CalledWith("predict_refactoring_error", <<b, a>>, r.out)
              /\ ml_filter' = r.self
    /\ UNCHANGED <<node, pc, input_kind, use_ml_filter, ML_AVAILABLE, model_on_disk,
                   model_file, nfiles, todo, source, issues, refactored_code,
                   error_probability, output, written, discarded, log, raised>>

TrainModel ==
    /\ pc = "filter"
    /\ \E data \in Datasets :
          \E r \in {train_model(ml_filter, model_on_disk, model_file, data)} :
              /\ result' = CalledWith("train_model", <<data>>, r.out)
              /\ ml_filter' = r.self
              /\ model_on_disk' = r.on_disk
              /\ model_file' = r.file
    /\ UNCHANGED <<node, pc, input_kind, use_ml_filter, ML_AVAILABLE, nfiles, todo,
                   source, issues, refactored_code, error_probability, output,
                   written, discarded, log, raised>>

\* `python ml_filter.py train --data ...` run as a process of its own: the
\* filter object of that process (line 289) trains and writes
\* models/model.pkl; the filter object of this process is not touched.
OfflineTrain ==
    /\ pc = "filter"
    /\ \E data \in Datasets :
          \E r \in {train_model(MLErrorFilter, model_on_disk, model_file, data)} :
              /\ result' = CalledWith("ml_filter.py train", <<data>>, r.out)
              /\ model_on_disk' = r.on_disk
              /\ model_file' = r.file
    /\ UNCHANGED <<node, pc, input_kind, use_ml_filter, ML_AVAILABLE, ml_filter, nfiles,
                   todo, source, issues, refactored_code, error_probability, output,
                   written, discarded, log, raised>>

InitFilter ==
    /\ node = None /\ result = NotCalled
    /\ pc = "filter" /\ input_kind = "invalid" /\ use_ml_filter = FALSE
    /\ ML_AVAILABLE = TRUE
    /\ model_on_disk \in BOOLEAN
    /\ model_file \in (IF model_on_disk THEN ModelFiles ELSE {None})
    /\ ml_filter = MLErrorFilter
    /\ nfiles = 0 /\ todo = 0
    /\ source = None /\ issues = NoIssues /\ refactored_code = None
    /\ error_probability = -1 /\ output = None /\ written = 0
    /\ discarded = 0 /\ log = <<>> /\ raised = "None"

NextFilter ==
    \/ ExtractFeatures
    \/ LoadModel
    \/ PredictRefactoringError
    \/ TrainModel
    \/ OfflineTrain

SpecFilter == InitFilter /\ [][NextFilter]_vars

(***************************************************************************)
(* Command line (refactoring_tool/cli.py): main and process_file.          *)
(***************************************************************************)
NoModelWarning == "No ML model file found. Proceeding without error filtering."
NotImportableWarning ==
    "ML filter requested but not installed/importable. Proceeding without it."

\* main, lines 48-59, with the FileNotFoundError of load_model not handled
\* by dropping the filter: the filter object is kept.
init_ml_filter_keeps_filter(use, available, on_disk, file) ==
    IF use /\ available
    THEN LET loaded == load_model(MLErrorFilter, on_disk, file) IN
         IF loaded.raised = "FileNotFoundError"
         THEN [ml_filter |-> MLErrorFilter, log |-> <<NoModelWarning>>]
         ELSE [ml_filter |-> loaded.value, log |-> <<>>]
    ELSE IF use /\ ~available
    THEN [ml_filter |-> None, log |-> <<NotImportableWarning>>]
    ELSE [ml_filter |-> None, log |-> <<>>]

\* main, lines 48-59: the filter main hands to process_file and the warnings
\* it logs.
init_ml_filter(use, available, on_disk, file) ==
    IF use /\ available
    THEN LET loaded == load_model(MLErrorFilter, on_disk, file) IN
         IF loaded.raised = "FileNotFoundError"
         THEN [ml_filter |-> None, log |-> <<NoModelWarning>>]
         ELSE [ml_filter |-> loaded.value, log |-> <<>>]
    ELSE IF use /\ ~available
    THEN [ml_filter |-> None, log |-> <<NotImportableWarning>>]
    ELSE [ml_filter |-> None, log |-> <<>>]

error_threshold == 30

\* The gate's comparison with >= for >.
is_risky_from_threshold(error_prob) == error_prob >= error_threshold

\* process_file, line 124.
is_risky(error_prob) == error_prob > error_threshold

\* Files the command line is run on: they exist; one does not parse.
CliFiles == {File(BadText)} \cup {File(SourceText(<<s>>)) : s \in Nest(1)}

TotalIssues(found) == Len(found.loop) + Len(found.nested_if) + Len(found.if_chain)

\* Where process_file's return leaves main: at the next file or at the end.
AfterFile == IF todo > 1 THEN "process_file" ELSE "done"

\* main up to the dispatch on input_path (lines 24-72).
Main ==
    /\ pc = "start"
    /\ LET m == init_ml_filter(use_ml_filter, ML_AVAILABLE, model_on_disk, model_file) IN
       /\ ml_filter' = m.ml_filter
       /\ log' = m.log
    /\ \/ /\ input_kind = "file"
          /\ nfiles' = 1 /\ todo' = 1 /\ pc' = "process_file"
       \/ /\ input_kind = "dir"
          /\ \E n \in 0..MaxFiles :
                /\ nfiles' = n /\ todo' = n
                /\ pc' = IF n = 0 THEN "done" ELSE "process_file"
       \/ /\ input_kind = "invalid"
          /\ nfiles' = 0 /\ todo' = 0 /\ pc' = "exit_1"
    /\ UNCHANGED <<ruleVars, input_kind, use_ml_filter, ML_AVAILABLE, model_on_disk,
                   model_file,
                   source, issues, refactored_code, error_probability, output,
                   written, discarded, raised>>

\* process_file, lines 94-111: analysis of the next file; with no issue the
\* original is written and process_file returns.
ProcessFileAnalyze ==
    /\ pc = "process_file" /\ todo > 0
    /\ \E file \in CliFiles :
          LET found == analyze_file(file).value IN
          /\ source' = file
          /\ issues' = found
          /\ refactored_code' = None
          /\ error_probability' = -1
          /\ IF TotalIssues(found) = 0
             THEN /\ output' = read_python_file(file).value
                  /\ written' = written + 1
                  /\ todo' = todo - 1
                  /\ pc' = AfterFile
             ELSE /\ output' = None
                  /\ pc' = "apply"
                  /\ UNCHANGED <<written, todo>>
    /\ UNCHANGED <<ruleVars, input_kind, use_ml_filter, ML_AVAILABLE, model_on_disk,
                   model_file,
                   ml_filter, nfiles, discarded, log, raised>>

\* process_file, lines 113-116.
ProcessFileApply ==
    /\ pc = "apply"
    /\ LET code == apply_refactorings(source) IN
       /\ refactored_code' = code
       /\ IF code = None
          THEN /\ output' = read_python_file(source).value
               /\ written' = written + 1
               /\ todo' = todo - 1
               /\ pc' = AfterFile
          ELSE /\ pc' = IF ml_filter # None THEN "gate" ELSE "write"
               /\ UNCHANGED <<output, written, todo>>
    /\ UNCHANGED <<ruleVars, input_kind, use_ml_filter, ML_AVAILABLE, model_on_disk,
                   model_file,
                   ml_filter, nfiles, source, issues, error_probability, discarded,
                   log, raised>>

\* process_file, lines 119-129: the risk gate.
ProcessFileGate ==
    /\ pc = "gate"
    /\ \E prob \in Probabilities :
          LET original_code == read_python_file(source).value
              r == predict_refactoring_error(ml_filter, model_on_disk, model_file,
                                             original_code, refactored_code, prob)
          IN
          /\ ml_filter' = r.self
          /\ IF r.out.raised # "None"
             THEN /\ raised' = r.out.raised
                  /\ pc' = "crashed"
                  /\ UNCHANGED <<error_probability, output, written, todo, discarded>>
             ELSE /\ error_probability' = r.out.value
                  /\ raised' = raised
                  /\ IF is_risky(r.out.value)
                     THEN /\ output' = original_code
                          /\ written' = written + 1
                          /\ discarded' = discarded + 1
                          /\ todo' = todo - 1
                          /\ pc' = AfterFile
                     ELSE /\ pc' = "write"
                          /\ UNCHANGED <<output, written, todo, discarded>>
    /\ UNCHANGED <<ruleVars, input_kind, use_ml_filter, ML_AVAILABLE, model_on_disk,
                   model_file, nfiles, source, issues, refactored_code, log>>

\* process_file, lines 131-147: the rewritten text is written.
ProcessFileWrite ==
    /\ pc = "write"
    /\ output' = refactored_code
    /\ written' = written + 1
    /\ todo' = todo - 1
    /\ pc' = AfterFile
    /\ UNCHANGED <<ruleVars, input_kind, use_ml_filter, ML_AVAILABLE, model_on_disk,
                   model_file,
                   ml_filter, nfiles, source, issues, refactored_code,
                   error_probability, discarded, log, raised>>

Init ==
    /\ node = None /\ result = NotCalled
    /\ pc = "start"
    /\ input_kind \in {"file", "dir", "invalid"}
    /\ use_ml_filter \in BOOLEAN
    /\ ML_AVAILABLE \in BOOLEAN
    /\ model_on_disk \in BOOLEAN
    /\ model_file \in (IF model_on_disk THEN ModelFiles ELSE {None})
    /\ ml_filter = None /\ nfiles = 0 /\ todo = 0
    /\ source = None /\ issues = NoIssues /\ refactored_code = None
    /\ error_probability = -1 /\ output = None /\ written = 0
    /\ discarded = 0 /\ log = <<>> /\ raised = "None"

Next ==
    \/ Main
    \/ ProcessFileAnalyze
    \/ ProcessFileApply
    \/ ProcessFileGate
    \/ ProcessFileWrite

Spec == Init /\ [][Next]_vars

(***************************************************************************)
(* Shapes the claims speak of, stated on the tree alone.                   *)
(***************************************************************************)
\* A loop whose body is one expression-statement calling append with one
\* argument on a bare identifier.
AppendShape(n) ==
    /\ n.kind = "For"
    /\ Len(n.body) = 1
    /\ n.body[1].kind = "Expr"
    /\ n.body[1].value.kind = "Call"
    /\ n.body[1].value.func.kind = "Attribute"
    /\ n.body[1].value.func.attr = "append"
    /\ Len(n.body[1].value.args) = 1
    /\ n.body[1].value.func.value.kind = "Name"

\* A conditional whose body is a single conditional.
NestedShape(n) == n.kind = "If" /\ Len(n.body) = 1 /\ n.body[1].kind = "If"

\* `identifier == constant`
IsEqualityTest(t) ==
    /\ t.kind = "Compare"
    /\ t.ops = <<"Eq">>
    /\ t.left.kind = "Name"
    /\ Len(t.comparators) = 1
    /\ t.comparators[1].kind = "Constant"

\* The conditionals of the if/elif chain that n begins, and its trailing else.
RECURSIVE ChainElements(_)
ChainElements(n) ==
    IF Len(n.orelse) = 1 /\ n.orelse[1].kind = "If"
    THEN <<n>> \o ChainElements(n.orelse[1])
    ELSE <<n>>

ChainElse(n) == ChainElements(n)[Len(ChainElements(n))].orelse

\* Every element tests the same identifier for equality with a literal.
EqualityChain(n) ==
    /\ n.kind = "If"
    /\ \A i \in 1..Len(ChainElements(n)) :
          /\ IsEqualityTest(ChainElements(n)[i].test)
          /\ ChainElements(n)[i].test.left.id = n.test.left.id

\* C1: on a loop of the append shape, with receiver `result`, target t,
\* iterable I and appended expression E, transform_loop_to_comprehension
\* returns exactly `result = [E for t in I]`: one Store target, a list
\* comprehension with element E and one generator (t, I, no conditions).
C1_LoopBecomesComprehension ==
    (result.called = "transform_loop_to_comprehension" /\ AppendShape(node)) =>
        /\ result.out.raised = "None"
        /\ LET a == result.out.value
               call == node.body[1].value
           IN /\ a.kind = "Assign"
              /\ a.targets = <<[kind |-> "Name", id |-> call.func.value.id, ctx |-> "Store"]>>
              /\ a.value.kind = "ListComp"
              /\ a.value.elt = call.args[1]
              /\ Len(a.value.generators) = 1
              /\ a.value.generators[1].target = node.target
              /\ a.value.generators[1].iter = node.iter
              /\ a.value.generators[1].ifs = <<>>

C1_Witness ==
    /\ result.called = "transform_loop_to_comprehension"
    /\ AppendShape(node)
    /\ node.body[1].value.args[1].kind = "Call"
    /\ result.out.raised = "None"

\* C2: when the inner conditional of a nested pair has an else-branch, the
\* nested-if rule signals mismatch and refactor_nested_if returns the
\* original node.
C2_InnerElseRejected ==
    (NestedShape(node) /\ node.body[1].orelse # <<>>) =>
        /\ result.called = "transform_nested_if" => result.out.raised = "ValueError"
        /\ result.called = "refactor_nested_if" => result.out = Return(node)

\* C6: on an equality chain transform_if_chain_to_dict returns two
\* statements: the assignment of a mapping from each branch literal to a
\* zero-argument callable, then the lookup of the subject in the mapping,
\* invoked, with the wrapped else body as fallback exactly when the chain
\* ends in an else.
C6_TwoStatements ==
    (result.called = "transform_if_chain_to_dict" /\ EqualityChain(node)) =>
        /\ result.out.raised = "None"
        /\ LET out == result.out.value
               elems == ChainElements(node)
           IN /\ Len(out) = 2
              /\ out[1].kind = "Assign"
              /\ out[1].value.kind = "Dict"
              /\ out[1].value.keys = [i \in 1..Len(elems) |-> elems[i].test.comparators[1]]
              /\ \A i \in 1..Len(out[1].value.values) :
                    out[1].value.values[i].kind = "Lambda"
              /\ out[2].kind = "Expr"
              /\ out[2].value.kind = "Call"
              /\ out[2].value.args = <<>>
              /\ out[2].value.func.kind = "Call"
              /\ out[2].value.func.func = Attribute(Load(out[1].targets[1].id), "get")
              /\ out[2].value.func.args[1] = node.test.left
              /\ (Len(out[2].value.func.args) = 2) <=> (ChainElse(node) # <<>>)
              /\ ChainElse(node) # <<>> =>
                    out[2].value.func.args[2] = Lambda(wrap_body_in_expression(ChainElse(node)))
\* The file parses: it exists and its text has no syntax error.
Parses(file) == file.kind = "file" /\ "error" \notin DOMAIN file.text

\* Every For and If node under n, with its position.
RECURSIVE Under(_, _)
Under(n, pos) ==
    (IF n.kind \in {"For", "If"} THEN {[pos |-> pos, node |-> n]} ELSE {})
    \cup (IF n.kind \in {"For", "If", "Module"}
          THEN UNION {Under(n.body[i], Append(pos, [f |-> "body", i |-> i])) :
                        i \in 1..Len(n.body)}
          ELSE {})
    \cup (IF n.kind \in {"For", "If"}
          THEN UNION {Under(n.orelse[i], Append(pos, [f |-> "orelse", i |-> i])) :
                        i \in 1..Len(n.orelse)}
          ELSE {})

SourceTree == Module(source.text.body)
Reported(list) == {[pos |-> list[i].pos, node |-> list[i].node] : i \in 1..Len(list)}
AllIssues == Reported(issues.loop) \cup Reported(issues.nested_if) \cup Reported(issues.if_chain)

\* C3: the chain detector reports a conditional if and only if it begins an
\* equality chain (every branch `identifier == constant` on one identifier)
\* of at least 3 equality branches.
C3_ChainReportedIffEqualityChain ==
    (pc = "analyzed" /\ Parses(source)) =>
        \A s \in Under(SourceTree, <<>>) :
            s.node.kind = "If" =>
                (s \in Reported(issues.if_chain)
                 <=> (EqualityChain(s.node) /\ Len(ChainElements(s.node)) >= 3))

\* C4: on a tree where no detector reports an issue, refactor_ast returns a
\* tree identical to its input.
C4_IdentityWithoutIssues ==
    (pc = "refactored" /\ Parses(source) /\ AllIssues = {}) =>
        refactored_code.body = source.text.body

C4_Witness ==
    /\ pc = "refactored" /\ Parses(source) /\ AllIssues = {}
    /\ \E s \in Under(SourceTree, <<>>) :
          /\ s.node.kind = "For"
          /\ \E j \in 1..Len(s.node.body) : s.node.body[j].kind = "If"
    /\ refactored_code.body = source.text.body

\* C5: after one orchestrator pass no detector reports, on the output tree,
\* a pattern instance it reported on the input tree (here: the same node at
\* the same position).
C5_DetectedPatternRemoved ==
    (pc = "refactored" /\ Parses(source)) =>
        LET after == RunDetectors(Module(refactored_code.body)) IN
        /\ Reported(issues.loop) \cap Reported(after.loop) = {}
        /\ Reported(issues.nested_if) \cap Reported(after.nested_if) = {}
        /\ Reported(issues.if_chain) \cap Reported(after.if_chain) = {}

C8_FailuresPropagate ==
    pc = "analyzed" =>
        /\ (source.kind = "file" /\ ~Parses(source)) => raised = "SyntaxError"
        /\ source.kind = "missing" => raised = "FileNotFoundError"
\* C9: with a classifier present, a probability strictly above the
\* threshold leaves the original text written and the rewrite discarded, a
\* probability at or below it leaves the rewritten text written, and the
\* rewritten text is not written before the gate has decided.
C9_RiskGate ==
    ml_filter # None =>
        /\ error_probability > error_threshold =>
              (output = source.text /\ discarded >= 1)
        /\ error_probability \in 0..error_threshold =>
              IF pc = "write" THEN output = None ELSE output = refactored_code
        /\ (output # None /\ output.by = "astor") =>
              error_probability \in 0..error_threshold
        /\ pc \in {"apply", "gate", "write"} => output = None

C9_Witness ==
    /\ ml_filter # None
    /\ error_probability = error_threshold
    /\ output = refactored_code
    /\ output.by = "astor"
    /\ output.body # source.text.body

\* C10: when the gate is requested and no persisted model exists, main logs
\* a warning, runs without a filter, processes every input file, and no
\* rewrite is discarded by the gate.
C10_ModelNotFoundDisablesGate ==
    (use_ml_filter /\ ML_AVAILABLE /\ ~model_on_disk /\ pc # "start") =>
        /\ ml_filter = None
        /\ log = <<NoModelWarning>>
        /\ discarded = 0
        /\ error_probability = -1
        /\ pc # "crashed"
        /\ input_kind # "invalid" => pc # "exit_1"
        /\ pc = "done" => written = nfiles

C10_Witness ==
    /\ use_ml_filter /\ ML_AVAILABLE /\ ~model_on_disk
    /\ pc = "done" /\ nfiles >= 2 /\ written = nfiles
    /\ output = refactored_code /\ output # None

(***************************************************************************)
(* Claims about the feature extractor and the risk classifier.             *)
(***************************************************************************)
\* The ten feature names of the specification, in order.
TenKeys ==
    <<"complexity_before", "complexity_after", "complexity_change",
      "length_before", "length_after", "length_change",
      "nesting_before", "nesting_after", "nesting_change",
      "variable_usage_diff">>

KeysOf(feats) == [i \in 1..Len(feats) |-> feats[i].key]

\* C11: with no resident model and no persisted model file,
\* predict_refactoring_error raises FileNotFoundError, returns no
\* probability, and the resident model is still absent afterwards.
C11_NoModelRaisesNotFound ==
    (result.called = "predict_refactoring_error" /\ ~model_on_disk) =>
        /\ result.out.raised = "FileNotFoundError"
        /\ "value" \notin DOMAIN result.out
        /\ ml_filter.model = None

C11_Witness ==
    /\ result.called = "predict_refactoring_error" /\ ~model_on_disk
    /\ "error" \notin DOMAIN result.args[1] /\ result.args[1].body # <<>>
    /\ "error" \notin DOMAIN result.args[2] /\ result.args[2].body # <<>>
    /\ result.out.raised = "FileNotFoundError"
    /\ ml_filter.model = None

\* C12: for every pair of input strings, unparseable and empty ones
\* included, extract_features returns without raising a mapping whose keys
\* are exactly the ten feature names in their fixed order.
C12_TenKeysWithoutRaising ==
    result.called = "extract_features" =>
        /\ result.out.raised = "None"
        /\ KeysOf(result.out.value) = TenKeys

\* C13: when both snippets of a pair are malformed (ast.parse raises
\* SyntaxError on each), every one of the ten features returned by
\* extract_features is 0, the two lengths included.
C13_MalformedYieldsZeros ==
    (/\ result.called = "extract_features"
     /\ \A i \in 1..2 : /\ "error" \in DOMAIN result.args[i]
                        /\ result.args[i].error = "SyntaxError") =>
        /\ result.out.raised = "None"
        /\ \A i \in 1..Len(result.out.value) : result.out.value[i].value = 0

\* C14: loading a persisted model whose training schema differs from the
\* extractor's ten keys fails with a schema mismatch, and no model is
\* invoked with a feature vector whose keys differ from its training schema.
C14_SchemaGuard ==
    /\ (/\ result.called = "load_model"
        /\ model_on_disk
        /\ model_file.trained_on # TenKeys) =>
            result.out.raised = "SchemaMismatch"
    /\ (/\ result.called = "predict_refactoring_error"
        /\ ml_filter.model # None
        /\ extract_features(result.args[1], result.args[2]).raised = "None") =>
            ml_filter.model.trained_on
                = KeysOf(extract_features(result.args[1], result.args[2]).value)

(***************************************************************************)
(* Claims about the orchestrator, the engine and the command line.         *)
(***************************************************************************)
\* The statements that stand in place of the statement n when every
\* replacement a rule returns for a node is put at the position of that
\* node, children first: the comprehension for a loop, the merged
\* conditional for a nested pair, the two statements for a chain.
RECURSIVE Spliced(_)
RECURSIVE SplicedList(_, _)
SplicedList(stmts, i) ==
    IF i > Len(stmts) THEN <<>>
    ELSE Spliced(stmts[i]) \o SplicedList(stmts, i + 1)

Spliced(n) ==
    IF n.kind \notin {"For", "If"} THEN <<n>>
    ELSE LET n1 == [n EXCEPT !.body = SplicedList(n.body, 1),
                             !.orelse = SplicedList(n.orelse, 1)]
         IN IF n.kind = "For"
            THEN (IF transform_loop_to_comprehension(n1).raised = "None"
                  THEN <<transform_loop_to_comprehension(n1).value>> ELSE <<n1>>)
            ELSE LET n2 == IF transform_nested_if(n1).raised = "None"
                           THEN transform_nested_if(n1).value ELSE n1
                 IN IF transform_if_chain_to_dict(n2).raised = "None"
                    THEN transform_if_chain_to_dict(n2).value ELSE <<n2>>

\* C15: whenever a rule returns a replacement for a node during the pass,
\* the replacement node or node sequence is in the output tree, in the
\* parent's statement list at the position of the original node with the
\* siblings in their order; the two statements of the chain rule included.
C15_ReplacementsSpliced ==
    (pc = "refactored" /\ Parses(source)) =>
        refactored_code.body = SplicedList(source.text.body, 1)

\* C16: a pattern mismatch never escalates past the orchestrator: for every
\* loop or conditional node refactor_loop, refactor_nested_if and
\* refactor_if_chain return without raising, returning the original node
\* itself (in a list for the chain) when the rule signals mismatch, and
\* refactor_ast completes without raising.
C16_MismatchAbsorbed ==
    /\ result.called = "refactor_loop" =>
          /\ result.out.raised = "None"
          /\ transform_loop_to_comprehension(node).raised = "ValueError" =>
                result.out.value = node
    /\ result.called = "refactor_nested_if" =>
          /\ result.out.raised = "None"
          /\ transform_nested_if(node).raised = "ValueError" =>
                result.out.value = node
    /\ result.called = "refactor_if_chain" =>
          /\ result.out.raised = "None"
          /\ transform_if_chain_to_dict(node).raised = "ValueError" =>
                result.out.value = <<node>>
    /\ result.called = "refactor_ast" =>
          /\ result.out.raised = "None"
          /\ result.out.value.kind = "Module"

C16_Witness ==
    /\ result.called = "refactor_if_chain"
    /\ Len(ChainElements(node)) = 3
    /\ transform_if_chain_to_dict(node).raised = "ValueError"
    /\ result.out = Return(<<node>>)

\* What the output directory must hold for the file process_file has just
\* returned from: the original text when no issue was found, when
\* refactoring failed or when the gate discarded the rewrite, and the
\* rewritten text otherwise.
ExpectedOutput ==
    IF \/ AllIssues = {}
       \/ apply_refactorings(source) = None
       \/ (ml_filter # None /\ error_probability > error_threshold)
    THEN source.text
    ELSE apply_refactorings(source)

\* C17: after process_file has run on a readable input file the output
\* directory holds a file for it on every path through the pipeline (the
\* original or the rewritten text, as the path decides), and after a
\* directory walk it holds one for every .py file found.
C17_OutputAlwaysWritten ==
    /\ (source # None /\ pc \notin {"apply", "gate", "write"}) =>
          output = ExpectedOutput
    /\ pc \in {"process_file", "done", "crashed"} => written + todo = nfiles
    /\ pc \in {"done", "crashed"} => written = nfiles

\* The mismatch cases of the loop rule.
MoreThanOneStatement(n) == Len(n.body) > 1
NotAnExpressionCall(n) ==
    /\ Len(n.body) = 1
    /\ (n.body[1].kind # "Expr" \/ n.body[1].value.kind # "Call")
NotAppendOfOneArgument(n) ==
    /\ Len(n.body) = 1 /\ n.body[1].kind = "Expr" /\ n.body[1].value.kind = "Call"
    /\ \/ n.body[1].value.func.kind # "Attribute"
       \/ n.body[1].value.func.attr # "append"
       \/ Len(n.body[1].value.args) # 1
ReceiverNotAnIdentifier(n) ==
    /\ Len(n.body) = 1 /\ n.body[1].kind = "Expr" /\ n.body[1].value.kind = "Call"
    /\ n.body[1].value.func.kind = "Attribute"
    /\ n.body[1].value.func.attr = "append"
    /\ Len(n.body[1].value.args) = 1
    /\ n.body[1].value.func.value.kind # "Name"

\* C19: the loop rule signals mismatch, and the loop is kept as it is, when
\* the body has more than one statement, when its single statement is not
\* an expression-call, when the call is not an `append` member call with
\* exactly one argument, and when the receiver is not a bare identifier.
C19_LoopMismatchCases ==
    (/\ node.kind = "For"
     /\ \/ MoreThanOneStatement(node)
        \/ NotAnExpressionCall(node)
        \/ NotAppendOfOneArgument(node)
        \/ ReceiverNotAnIdentifier(node)) =>
        /\ result.called = "transform_loop_to_comprehension" =>
              (result.out.raised = "ValueError" /\ "value" \notin DOMAIN result.out)
        /\ result.called = "refactor_loop" => result.out = Return(node)

C19_Witness ==
    /\ node.kind = "For"
    /\ NotAppendOfOneArgument(node)
    /\ node.body[1].value.func.kind = "Attribute"
    /\ node.body[1].value.func.attr = "extend"
    /\ result.called = "transform_loop_to_comprehension"
    /\ result.out.raised = "ValueError"

\* The i-th element of the chain n has a condition the chain rule rejects:
\* not a single equality comparison of a bare identifier with a literal
\* constant, or a comparison of another identifier than the head's.
RejectedElement(n, i) ==
    \/ ~IsEqualityTest(ChainElements(n)[i].test)
    \/ ~IsEqualityTest(n.test)
    \/ ChainElements(n)[i].test.left.id # n.test.left.id

\* C20: the chain rule signals mismatch and produces no statements whenever
\* any element of the if/elif chain, the head or a later elif, has a
\* condition that is not a single equality comparison, a comparator that is
\* not a literal constant, or another subject than the head's identifier.
C20_ChainMismatchAtAnyElement ==
    (/\ node.kind = "If"
     /\ \E i \in 1..Len(ChainElements(node)) : RejectedElement(node, i)) =>
        /\ result.called = "transform_if_chain_to_dict" =>
              (result.out.raised = "ValueError" /\ "value" \notin DOMAIN result.out)
        /\ result.called = "refactor_if_chain" => result.out = Return(<<node>>)

C20_Witness ==
    /\ node.kind = "If"
    /\ Len(ChainElements(node)) = 3
    /\ ~RejectedElement(node, 1) /\ ~RejectedElement(node, 2)
    /\ IsEqualityTest(ChainElements(node)[3].test)
    /\ ChainElements(node)[3].test.left.id # node.test.left.id
    /\ result.called = "transform_if_chain_to_dict"
    /\ result.out.raised = "ValueError"

(***************************************************************************)
(* Claims about the detectors' reports and the order of the pass.          *)
(***************************************************************************)
\* The issues of the list reported at position pos.
IssuesAt(list, pos) == {i \in 1..Len(list) : list[i].pos = pos}

\* A loop whose body is one statement: the append shape, or an in-place
\* combine (augmented) assignment.
ConvertibleLoop(n) ==
    /\ n.kind = "For"
    /\ Len(n.body) = 1
    /\ (AppendShape(n) \/ n.body[1].kind = "AugAssign")

\* C21: the loop detector reports a loop if and only if its body is exactly
\* one statement that is an append call with one argument on a bare
\* identifier or an augmented assignment; it reports one issue per such
\* loop, with the message "For-loop can be converted to a list
\* comprehension."
C21_LoopReportedIffConvertible ==
    (pc = "analyzed" /\ Parses(source)) =>
        \A s \in Under(SourceTree, <<>>) :
            s.node.kind = "For" =>
                /\ Cardinality(IssuesAt(issues.loop, s.pos))
                       = (IF ConvertibleLoop(s.node) THEN 1 ELSE 0)
                /\ \A i \in IssuesAt(issues.loop, s.pos) :
                       /\ issues.loop[i].message
                              = "For-loop can be converted to a list comprehension."
                       /\ issues.loop[i].node = s.node

\* The program is a single if/elif chain of at least 3 conditionals whose
\* branches hold no conditional of their own.
SingleChainProgram ==
    /\ Parses(source)
    /\ Len(source.text.body) = 1
    /\ source.text.body[1].kind = "If"
    /\ Len(ChainElements(source.text.body[1])) >= 3
    /\ \A i \in 1..Len(ChainElements(source.text.body[1])) :
          \A j \in 1..Len(ChainElements(source.text.body[1])[i].body) :
              ChainElements(source.text.body[1])[i].body[j].kind # "If"

\* C22: for a program holding a single if/elif chain of any length k >= 3,
\* the chain detector reports exactly one issue, at the head of the chain,
\* not one per elif suffix.
C22_OneIssuePerChain ==
    (pc = "analyzed" /\ SingleChainProgram) =>
        /\ Len(issues.if_chain) = 1
        /\ issues.if_chain[1].pos = <<[f |-> "body", i |-> 1]>>

\* Position q is strictly below position p in the tree.
Below(p, q) == Len(p) < Len(q) /\ SubSeq(q, 1, Len(p)) = p

\* The tree handed to refactor_ast by the RefactorAst step, and its loops and
\* conditionals with their positions.
PassTree == Module(<<node>>)
PassNodes == Under(PassTree, <<>>)

\* A nest of three conditionals, each the only statement of its parent.
TripleNested(n) ==
    /\ NestedShape(n) /\ NestedShape(n.body[1])
    /\ ~NestedShape(n.body[1].body[1])

\* C23: bottom-up order.  Before an engine method is called for a loop or
\* conditional, every loop and conditional below it has been visited and
\* has had its own engine calls, and the node handed to the first rule holds
\* the rewritten children; so a nest of three conditionals is merged from
\* the innermost pair outward in one pass.
C23_BottomUp ==
    result.called = "refactor_ast" =>
        /\ \A j \in 1..Len(result.calls) :
              result.calls[j].ev = "call" =>
                  /\ \A d \in PassNodes :
                        Below(result.calls[j].pos, d.pos) =>
                            /\ \E k \in 1..(j - 1) : result.calls[k] = Visited(d.pos, d.node)
                            /\ \E k \in 1..(j - 1) :
                                  /\ result.calls[k].ev = "call"
                                  /\ result.calls[k].pos = d.pos
                  /\ \A k \in 1..Len(result.calls) :
                        (/\ result.calls[k].ev = "call"
                         /\ Below(result.calls[j].pos, result.calls[k].pos)) => k < j
                  /\ \A d \in PassNodes :
                        (/\ d.pos = result.calls[j].pos
                         /\ result.calls[j].rule \in {"refactor_loop", "refactor_nested_if"}) =>
                            /\ result.calls[j].arg.body = refactor_ast(Module(d.node.body)).body
                            /\ result.calls[j].arg.orelse
                                   = refactor_ast(Module(d.node.orelse)).body
        /\ TripleNested(node) =>
              LET inner == node.body[1].body[1] IN
              result.out.value.body
                  = <<If(BoolOp("And", <<node.test,
                                          BoolOp("And", <<node.body[1].test, inner.test>>)>>),
                         refactor_ast(Module(inner.body)).body,
                         node.orelse)>>

C23_Witness ==
    /\ result.called = "refactor_ast"
    /\ TripleNested(node)
    /\ node.body[1].body[1].body[1].kind = "For"
    /\ result.out.value.body[1].body[1].kind = "Assign"
    /\ result.out.value.body[1].test.values[2].kind = "BoolOp"

\* Every statement of the tree n and n itself, with its position.
RECURSIVE Nodes(_, _)
Nodes(n, pos) ==
    {[pos |-> pos, node |-> n]}
    \cup (IF n.kind \in {"For", "If", "Module"}
          THEN UNION {Nodes(n.body[i], Append(pos, [f |-> "body", i |-> i])) :
                        i \in 1..Len(n.body)}
          ELSE {})
    \cup (IF n.kind \in {"For", "If"}
          THEN UNION {Nodes(n.orelse[i], Append(pos, [f |-> "orelse", i |-> i])) :
                        i \in 1..Len(n.orelse)}
          ELSE {})

\* C24: in one pass each engine method is called at most once per node of
\* the input tree, and no node a rule produced is visited: every visit is
\* the visit of a node of the input tree at its position, and no position
\* is visited twice.
C24_OncePerOriginalNode ==
    result.called = "refactor_ast" =>
        \A j \in 1..Len(result.calls) :
            /\ result.calls[j].ev = "call" =>
                  /\ \E d \in PassNodes : d.pos = result.calls[j].pos
                  /\ \A k \in 1..Len(result.calls) :
                        (/\ result.calls[k].ev = "call"
                         /\ result.calls[k].rule = result.calls[j].rule
                         /\ result.calls[k].pos = result.calls[j].pos) => k = j
            /\ result.calls[j].ev = "visit" =>
                  /\ [pos |-> result.calls[j].pos, node |-> result.calls[j].node]
                         \in Nodes(PassTree, <<>>)
                  /\ \A k \in 1..Len(result.calls) :
                        (/\ result.calls[k].ev = "visit"
                         /\ result.calls[k].pos = result.calls[j].pos) => k = j

\* A pass in which both the loop rule and the nested-if rule produced a node.
C24_Witness ==
    /\ result.called = "refactor_ast"
    /\ NestedShape(node)
    /\ \E j \in 1..Len(result.calls) :
          /\ result.calls[j].ev = "call"
          /\ result.calls[j].rule = "refactor_loop"
          /\ refactor_loop(result.calls[j].arg).value.kind = "Assign"
    /\ result.out.value.body[1].test.kind = "BoolOp"
    /\ Cardinality({j \in 1..Len(result.calls) : result.calls[j].ev = "call"}) >= 5

\* C25: on an outer conditional whose body is a single inner conditional,
\* transform_nested_if returns one conditional whose test is
\* `outer_test and inner_test`, both tests as they were and in that order,
\* whose body is the inner body and whose else-branch is the outer's.
C25_MergedConditional ==
    (result.called = "transform_nested_if" /\ NestedShape(node)) =>
        /\ result.out.raised = "None"
        /\ result.out.value.kind = "If"
        /\ result.out.value.test.kind = "BoolOp"
        /\ result.out.value.test.op = "And"
        /\ result.out.value.test.values = <<node.test, node.body[1].test>>
        /\ result.out.value.body = node.body[1].body
        /\ result.out.value.orelse = node.orelse

C25_Witness ==
    /\ result.called = "transform_nested_if"
    /\ NestedShape(node)
    /\ node.test # node.body[1].test
    /\ node.orelse # <<>>
    /\ node.body[1].body[1].kind = "If"
    /\ result.out.raised = "None"
    /\ result.out.value.test.values[1] = Load("a")
    /\ result.out.value.orelse = node.orelse

(***************************************************************************)
(* Claims about the resident classifier model and the chain mapping.       *)
(***************************************************************************)
\* C26: the model is loaded at most once and is read-only thereafter: a
\* predict_refactoring_error call on a filter whose model is resident
\* leaves the filter and its model as they were, whatever the model file
\* holds by then (load_model runs inside the call only while no model is
\* resident), and a call on a filter without a model leaves it with the
\* model of the file or, the load failing, without one.
C26_LoadedOnceThenReadOnly ==
    [][(result'.called = "predict_refactoring_error") =>
          /\ ml_filter.model # None => ml_filter' = ml_filter
          /\ ml_filter.model = None =>
                ml_filter'.model = (IF model_on_disk THEN model_file ELSE None)]_vars

\* A prediction answered by the resident model while the model file holds
\* another one.
C26_Witness ==
    /\ result.called = "predict_refactoring_error"
    /\ result.out.raised = "None"
    /\ ml_filter.model # None
    /\ model_on_disk /\ model_file # ml_filter.model

\* C27: for every chain transform_if_chain_to_dict accepts, the mapping has
\* one entry per equality branch, in chain order, keyed by the branch's
\* literal and holding the branch's wrapped body, and the lookup has a
\* fallback only if the chain ends in an else; also when a branch literal is
\* the string '__else__'.
C27_OneEntryPerBranch ==
    (result.called = "transform_if_chain_to_dict" /\ result.out.raised = "None") =>
        LET mapping == result.out.value[1].value
            lookup == result.out.value[2].value.func
        IN /\ Len(mapping.keys) = Len(ChainElements(node))
           /\ Len(mapping.values) = Len(ChainElements(node))
           /\ \A i \in 1..Len(ChainElements(node)) :
                 (i <= Len(mapping.keys) /\ i <= Len(mapping.values)) =>
                     /\ mapping.keys[i] = ChainElements(node)[i].test.comparators[1]
                     /\ mapping.values[i]
                            = Lambda(wrap_body_in_expression(ChainElements(node)[i].body))
           /\ Len(lookup.args) = (IF ChainElse(node) # <<>> THEN 2 ELSE 1)
====
